---- MODULE Spec2Model ----
(***************************************************************************)
(* State-machine model of smartppt.py: SmartPPTGenerator.generate_ppt and  *)
(* the functions it calls (classification of a folder's images, the two    *)
(* slide layouts, the placement of one picture, page numbering, the        *)
(* per-folder summary and the final save).                                 *)
(*                                                                         *)
(* Lengths are exact rationals in millimetres (python-pptx's Cm() yields   *)
(* EMU integers, 1 mm = 36000 EMU, and the layout arithmetic is done in    *)
(* Python floats: the model computes the same expressions exactly, and the *)
(* numerical properties are stated with a tolerance).  A rational is a     *)
(* pair <<n, d>> with d > 0 in lowest terms.                               *)
(***************************************************************************)
EXTENDS Integers, Sequences, FiniteSets, TLC

(***************************************************************************)
(* Bounds of the model.                                                    *)
(***************************************************************************)
MaxFolders == 3
MaxFiles == 6
MaxLayoutFolders == 1
MaxLayoutFiles == 5
MaxSinkFolders == 2
MaxSinkFiles == 4
MaxSinkFailures == 1
MaxClassifyFolders == 1
MaxClassifyFiles == 3

(***************************************************************************)
(* Exact rational arithmetic (Python float expressions, computed exactly). *)
(***************************************************************************)
Abs(n) == IF n < 0 THEN -n ELSE n

RECURSIVE GCD(_, _)
GCD(a, b) == IF b = 0 THEN a ELSE GCD(b, a % b)

R(n, d) ==
    LET s == IF d < 0 THEN -1 ELSE 1
        g == GCD(Abs(n), Abs(d))
    IN  <<(s * n) \div g, (s * d) \div g>>

RInt(n) == <<n, 1>>

RAdd(a, b) ==
    LET g == GCD(a[2], b[2])
    IN  R(a[1] * (b[2] \div g) + b[1] * (a[2] \div g), (a[2] \div g) * b[2])

RNeg(a) == <<-a[1], a[2]>>

RSub(a, b) == RAdd(a, RNeg(b))

RMul(a, b) ==
    LET g1 == GCD(Abs(a[1]), b[2])
        g2 == GCD(Abs(b[1]), a[2])
    IN  <<(a[1] \div g1) * (b[1] \div g2), (a[2] \div g2) * (b[2] \div g1)>>

RDiv(a, b) == RMul(a, R(b[2], b[1]))

RLe(a, b) ==
    LET g == GCD(a[2], b[2])
    IN  a[1] * (b[2] \div g) <= b[1] * (a[2] \div g)

RLt(a, b) == ~RLe(b, a)

RMin(a, b) == IF RLe(a, b) THEN a ELSE b

RECURSIVE RSum(_)
RSum(s) == IF s = <<>> THEN RInt(0) ELSE RAdd(Head(s), RSum(Tail(s)))

\* math.ceil(n / d) for integers n >= 0, d > 0
Ceil(n, d) == IF n % d = 0 THEN n \div d ELSE (n \div d) + 1

Min(a, b) == IF a <= b THEN a ELSE b

\* pptx.util.Cm: a length given in centimetres (here a rational), in mm
Cm(x) == RMul(RInt(10), x)

(***************************************************************************)
(* State.  The first group holds the configuration read once by            *)
(* SmartPPTGenerator.__init__ and generate_ppt; the second the locals of   *)
(* generate_ppt; `slides' is the presentation (prs.slides) and `scan_log'  *)
(* the per-folder scan line printed after classification (with the         *)
(* directory listing it was computed from).                                *)
(***************************************************************************)
VARIABLES image_folders, image_area_ratio, margin, gap, show_page_numbers,
          supported_formats, portrait_threshold, square_min, square_max,
          pc, folder_index, portraits, squares, failed,
          square_idx, portrait_idx, portrait_groups, group,
          folder_slide_count, total_slide_count, folder_summary,
          slides, scan_log

config_vars == <<image_folders, image_area_ratio, margin, gap, show_page_numbers,
                 supported_formats, portrait_threshold, square_min, square_max>>

folder_vars == <<portraits, squares, failed, square_idx, portrait_idx,
                 portrait_groups, group, folder_slide_count>>

vars == <<config_vars, folder_vars, pc, folder_index, total_slide_count,
          folder_summary, slides, scan_log>>

page_width == Cm(RInt(42))

page_height == Cm(R(297, 10))

(***************************************************************************)
(* File names are sequences of characters; str.lower and str.endswith.     *)
(***************************************************************************)
LowerChar(c) ==
    CASE c = "J" -> "j"
      [] c = "P" -> "p"
      [] c = "G" -> "g"
      [] c = "N" -> "n"
      [] OTHER -> c

lower(s) == [i \in 1..Len(s) |-> LowerChar(s[i])]

endswith(s, suffix) ==
    /\ Len(suffix) <= Len(s)
    /\ SubSeq(s, Len(s) - Len(suffix) + 1, Len(s)) = suffix

jpg == <<".", "j", "p", "g">>

JPG == <<".", "J", "P", "G">>

png == <<".", "p", "n", "g">>

txt == <<".", "t", "x", "t">>

\* ConfigManager.defaults, as SmartPPTGenerator.__init__ reads them (the
\* format list is cut to the two extensions the model's files use)
default_area_ratio == R(7, 10)

default_margin == Cm(R(15, 10))

default_gap == Cm(R(12, 10))

default_portrait_threshold == R(9, 10)

default_square_min == R(9, 10)

default_square_max == R(11, 10)

default_formats == <<jpg, png>>

(***************************************************************************)
(* robust_read_image: a directory entry is [filename, size]; size is the   *)
(* <<width, height>> PIL reports, or <<>> when opening or loading raises.  *)
(***************************************************************************)
None == [success |-> FALSE]

robust_read_image(folder_path, entry) ==
    IF entry.size = <<>>
    THEN None
    ELSE [path     |-> <<folder_path, entry.filename>>,
          filename |-> entry.filename,
          width    |-> entry.size[1],
          height   |-> entry.size[2],
          ratio    |-> R(entry.size[1], entry.size[2]),
          success  |-> TRUE]

is_supported(filename) ==
    \E k \in 1..Len(supported_formats) :
        endswith(lower(filename), supported_formats[k])

(***************************************************************************)
(* classify_images_in_folder: one pass over os.listdir's result.           *)
(***************************************************************************)
\* bucket with the portrait test written as a strict comparison
bucket_strict(ratio) ==
    IF RLt(ratio, portrait_threshold)
    THEN "portraits"
    ELSE IF RLt(square_min, ratio) /\ RLt(ratio, square_max)
    THEN "squares"
    ELSE "squares"

\* lines 202-207: the list an inspected image is appended to
bucket(ratio) ==
    IF RLe(ratio, portrait_threshold)
    THEN "portraits"
    ELSE IF RLt(square_min, ratio) /\ RLt(ratio, square_max)
    THEN "squares"
    ELSE "squares"

RECURSIVE classify_loop(_, _, _, _)
classify_loop(folder_path, listing, i, acc) ==
    IF i > Len(listing)
    THEN acc
    ELSE LET filename == listing[i].filename
             img_info == robust_read_image(folder_path, listing[i])
             next ==
                 IF ~is_supported(filename)
                 THEN acc
                 ELSE IF img_info.success
                 THEN [acc EXCEPT ![bucket(img_info.ratio)] = Append(@, img_info)]
                 ELSE [acc EXCEPT !.failed = @ + 1]
         IN  classify_loop(folder_path, listing, i + 1, next)

\* classify_images_in_folder with the lists created once, outside the
\* folder loop, so that they carry over from the previous folder
classify_carry_over(folder_path, listing) ==
    classify_loop(folder_path, listing, 1,
                  [portraits |-> portraits, squares |-> squares, failed |-> 0])

classify_images_in_folder(folder_path, listing) ==
    classify_loop(folder_path, listing, 1,
                  [portraits |-> <<>>, squares |-> <<>>, failed |-> 0])

\* add_image_to_slide with the wide branch fitted to the cell's height
\* instead of height * ratio
add_image_square_fit(img_info, left, top, width, height, accepted) ==
    LET orig_ratio == img_info.ratio
        wide == RLe(RInt(1), orig_ratio)
        new_width ==
            IF wide
            THEN RMin(width, height)
            ELSE RMul(RMin(height, RDiv(width, orig_ratio)), orig_ratio)
        new_height ==
            IF wide
            THEN RDiv(new_width, orig_ratio)
            ELSE RMin(height, RDiv(width, orig_ratio))
        left_c == RAdd(left, RDiv(RSub(width, new_width), RInt(2)))
        top_c == RAdd(top, RDiv(RSub(height, new_height), RInt(2)))
    IN  IF accepted
        THEN <<[path |-> img_info.path, left |-> left_c, top |-> top_c,
                width |-> new_width, height |-> new_height]>>
        ELSE <<>>

(***************************************************************************)
(* add_image_to_slide: the picture python-pptx adds (as a one-element      *)
(* sequence), or nothing when add_picture raises (`accepted' false): the   *)
(* exception is caught and logged, and the callers ignore the result.      *)
(***************************************************************************)
add_image_to_slide(img_info, left, top, width, height, accepted) ==
    LET orig_ratio == img_info.ratio
        wide == RLe(RInt(1), orig_ratio)
        new_width ==
            IF wide
            THEN RMin(width, RMul(height, orig_ratio))
            ELSE RMul(RMin(height, RDiv(width, orig_ratio)), orig_ratio)
        new_height ==
            IF wide
            THEN RDiv(new_width, orig_ratio)
            ELSE RMin(height, RDiv(width, orig_ratio))
        left_c == RAdd(left, RDiv(RSub(width, new_width), RInt(2)))
        top_c == RAdd(top, RDiv(RSub(height, new_height), RInt(2)))
    IN  IF accepted
        THEN <<[path |-> img_info.path, left |-> left_c, top |-> top_c,
                width |-> new_width, height |-> new_height]>>
        ELSE <<>>

available_width == RSub(page_width, RMul(RInt(2), margin))

available_height == RSub(page_height, RMul(RInt(2), margin))

(***************************************************************************)
(* create_mixed_slide: the pictures added for one square/landscape image   *)
(* and one portrait; sink[1], sink[2] say whether add_picture accepts.     *)
(***************************************************************************)
create_mixed_slide(square_img, portrait_img, sink) ==
    LET height0 == RMul(available_height, image_area_ratio)
        square0 == RMul(height0, square_img.ratio)
        portrait0 == RMul(height0, portrait_img.ratio)
        total0 == RAdd(RAdd(square0, gap), portrait0)
        over == RLt(available_width, total0)
        scale == RDiv(available_width, total0)
        square_width == IF over THEN RMul(square0, scale) ELSE square0
        portrait_width == IF over THEN RMul(portrait0, scale) ELSE portrait0
        unified_height == IF over THEN RMul(height0, scale) ELSE height0
        total_width ==
            IF over THEN RAdd(RAdd(square_width, gap), portrait_width) ELSE total0
        start_x == RAdd(margin, RDiv(RSub(available_width, total_width), RInt(2)))
        start_y == RAdd(margin, RDiv(RSub(available_height, unified_height), RInt(2)))
    IN  add_image_to_slide(square_img, start_x, start_y,
                           square_width, unified_height, sink[1])
        \o add_image_to_slide(portrait_img, RAdd(RAdd(start_x, square_width), gap),
                              start_y, portrait_width, unified_height, sink[2])

(***************************************************************************)
(* create_portrait_slide: one to three portraits in a row.                 *)
(***************************************************************************)
\* the loop of create_portrait_slide advancing current_x only when the
\* picture was added
RECURSIVE portrait_loop_skip(_, _, _, _, _, _, _)
portrait_loop_skip(portrait_imgs, image_widths, sink, i, current_x, start_y, unified_height) ==
    IF i > Len(portrait_imgs)
    THEN <<>>
    ELSE add_image_to_slide(portrait_imgs[i], current_x, start_y,
                            image_widths[i], unified_height, sink[i])
         \o portrait_loop_skip(portrait_imgs, image_widths, sink, i + 1,
                               IF sink[i]
                               THEN RAdd(current_x, RAdd(image_widths[i], gap))
                               ELSE current_x,
                               start_y, unified_height)

RECURSIVE portrait_loop(_, _, _, _, _, _, _)
portrait_loop(portrait_imgs, image_widths, sink, i, current_x, start_y, unified_height) ==
    IF i > Len(portrait_imgs)
    THEN <<>>
    ELSE add_image_to_slide(portrait_imgs[i], current_x, start_y,
                            image_widths[i], unified_height, sink[i])
         \o portrait_loop(portrait_imgs, image_widths, sink, i + 1,
                          RAdd(current_x, RAdd(image_widths[i], gap)),
                          start_y, unified_height)

create_portrait_slide(portrait_imgs, sink) ==
    LET n == Len(portrait_imgs)
        height0 == RMul(available_height, image_area_ratio)
        widths0 == [i \in 1..n |-> RMul(height0, portrait_imgs[i].ratio)]
        total_gap == RMul(RInt(n - 1), gap)
        total0 == RAdd(RSum(widths0), total_gap)
        over == RLt(available_width, total0)
        scale == RDiv(available_width, total0)
        unified_height == IF over THEN RMul(height0, scale) ELSE height0
        image_widths ==
            IF over
            THEN [i \in 1..n |-> RMul(unified_height, portrait_imgs[i].ratio)]
            ELSE widths0
        total_width == IF over THEN RAdd(RSum(image_widths), total_gap) ELSE total0
        start_x == RAdd(margin, RDiv(RSub(available_width, total_width), RInt(2)))
        start_y == RAdd(margin, RDiv(RSub(available_height, unified_height), RInt(2)))
    IN  portrait_loop(portrait_imgs, image_widths, sink, 1, start_x, start_y,
                      unified_height)

\* add_page_number: the text box written on the slide, if any
add_page_number(page_num) ==
    IF ~show_page_numbers THEN <<>> ELSE <<page_num>>

(***************************************************************************)
(* The environment.  A world fixes what a run can meet: the kinds of files *)
(* a directory may hold (extension and PIL's verdict), how many directory  *)
(* entries the run sees in all, and how many add_picture calls the         *)
(* document rejects.  The i-th entry of a listing is named i + extension.  *)
(***************************************************************************)
FolderPath(i) == <<ToString(i), "img">>

\* os.path.basename(os.path.normpath(folder_path))
basename(folder_path) == folder_path[Len(folder_path)]

Listing(kinds) ==
    [i \in 1..Len(kinds) |->
        [filename |-> <<ToString(i)>> \o kinds[i].ext, size |-> kinds[i].size]]

RECURSIVE FilesSeen(_)
FilesSeen(log) ==
    IF log = <<>> THEN 0 ELSE Len(Head(log).listing) + FilesSeen(Tail(log))

Listings(W) ==
    LET room == W.max_files - FilesSeen(scan_log)
    IN  UNION {{Listing(k) : k \in [1..n -> W.files]} : n \in 0..room}

RECURSIVE Rejected(_)
Rejected(pages) ==
    IF pages = <<>>
    THEN 0
    ELSE Len(Head(pages).images) - Len(Head(pages).shapes) + Rejected(Tail(pages))

Sinks(n, W) ==
    {sink \in [1..n -> BOOLEAN] :
        Cardinality({i \in 1..n : ~sink[i]}) + Rejected(slides) <= W.sink_failures}

(***************************************************************************)
(* generate_ppt, one action per step of its control flow.                  *)
(***************************************************************************)
\* lines 298-313: no folder configured returns at once; otherwise the
\* presentation and the counters are created
Begin ==
    /\ pc = "start"
    /\ pc' = IF image_folders = <<>> THEN "returned" ELSE "folder"
    /\ folder_index' = 1
    /\ total_slide_count' = 0
    /\ folder_summary' = <<>>
    /\ slides' = <<>>
    /\ UNCHANGED <<config_vars, folder_vars, scan_log>>

\* lines 315-322: os.path.exists(folder_path) is false
FolderNotFound ==
    /\ pc = "folder"
    /\ folder_index <= Len(image_folders)
    /\ folder_summary' = Append(folder_summary,
           [name  |-> basename(image_folders[folder_index]),
            note  |-> [kind |-> "not_found"],
            pages |-> 0])
    /\ folder_index' = folder_index + 1
    /\ UNCHANGED <<config_vars, folder_vars, pc, total_slide_count, slides, scan_log>>

\* lines 325, 196: the path exists but os.listdir raises (a regular file,
\* a directory that cannot be read); nothing catches the exception
FolderUnlistable ==
    /\ pc = "folder"
    /\ folder_index <= Len(image_folders)
    /\ pc' = "crashed"
    /\ UNCHANGED <<config_vars, folder_vars, folder_index, total_slide_count,
                   folder_summary, slides, scan_log>>

\* lines 325-333: the folder is classified and holds no usable image
FolderEmpty(W) ==
    /\ pc = "folder"
    /\ folder_index <= Len(image_folders)
    /\ \E listing \in Listings(W) :
         LET folder_path == image_folders[folder_index]
             c == classify_images_in_folder(folder_path, listing)
             total_imgs == Len(c.portraits) + Len(c.squares)
         IN  /\ total_imgs = 0
             /\ portraits' = c.portraits
             /\ squares' = c.squares
             /\ failed' = c.failed
             /\ scan_log' = Append(scan_log,
                    [folder |-> folder_index, listing |-> listing,
                     portraits |-> c.portraits, squares |-> c.squares,
                     failed |-> c.failed])
             /\ folder_summary' = Append(folder_summary,
                    [name  |-> basename(folder_path),
                     note  |-> [kind |-> "no_images"],
                     pages |-> 0])
    /\ folder_index' = folder_index + 1
    /\ UNCHANGED <<config_vars, pc, square_idx, portrait_idx, portrait_groups,
                   group, folder_slide_count, total_slide_count, slides>>

\* lines 325-337: the folder is classified and holds at least one image
FolderClassified(W) ==
    /\ pc = "folder"
    /\ folder_index <= Len(image_folders)
    /\ \E listing \in Listings(W) :
         LET folder_path == image_folders[folder_index]
             c == classify_images_in_folder(folder_path, listing)
             total_imgs == Len(c.portraits) + Len(c.squares)
         IN  /\ total_imgs # 0
             /\ portraits' = c.portraits
             /\ squares' = c.squares
             /\ failed' = c.failed
             /\ scan_log' = Append(scan_log,
                    [folder |-> folder_index, listing |-> listing,
                     portraits |-> c.portraits, squares |-> c.squares,
                     failed |-> c.failed])
    /\ folder_slide_count' = 0
    /\ square_idx' = 0
    /\ portrait_idx' = 0
    /\ pc' = "mixed"
    /\ UNCHANGED <<config_vars, folder_index, portrait_groups, group,
                   total_slide_count, folder_summary, slides>>

\* new_slide numbering the pages of each folder from 1
new_slide_per_folder(template, images, shapes) ==
    [folder   |-> folder_index,
     template |-> template,
     images   |-> images,
     shapes   |-> shapes,
     page_num |-> folder_slide_count + 1,
     textbox  |-> add_page_number(folder_slide_count + 1)]

\* lines 341-345, 354-360: the slide added to the presentation, with the
\* number handed to add_page_number
new_slide(template, images, shapes) ==
    [folder   |-> folder_index,
     template |-> template,
     images   |-> images,
     shapes   |-> shapes,
     page_num |-> total_slide_count + 1,
     textbox  |-> add_page_number(total_slide_count + 1)]

\* portrait_group_count rounding down
portrait_group_count_floor ==
    LET remaining_portraits == Len(portraits) - portrait_idx
    IN  IF remaining_portraits > 0 THEN remaining_portraits \div 3 ELSE 0

\* lines 350-352: the number of portrait rows
portrait_group_count ==
    LET remaining_portraits == Len(portraits) - portrait_idx
    IN  IF remaining_portraits > 0 THEN Ceil(remaining_portraits, 3) ELSE 0

\* portrait_group starting from the first portrait, paired or not
portrait_group_from_zero(g) ==
    LET start == g * 3
        end == Min(start + 3, Len(portraits))
    IN  SubSeq(portraits, start + 1, end)

\* portrait_group with rows of two
portrait_group_short(g) ==
    LET start == portrait_idx + (g * 3)
        end == Min(start + 2, Len(portraits))
    IN  SubSeq(portraits, start + 1, end)

\* lines 357-359: the portraits of row `g' (0-based)
portrait_group(g) ==
    LET start == portrait_idx + (g * 3)
        end == Min(start + 3, Len(portraits))
    IN  SubSeq(portraits, start + 1, end)

\* lines 363-364: the folder's status note
status_note ==
    LET unused_squares == Len(squares) - square_idx
    IN  [kind      |-> "used",
         used      |-> Min(Len(squares), Len(portraits)),
         unmatched |-> IF unused_squares > 0 THEN <<unused_squares>> ELSE <<>>]

\* lines 340-347: one turn of the pairing loop
MixedPage(W) ==
    /\ pc = "mixed"
    /\ square_idx < Len(squares)
    /\ portrait_idx < Len(portraits)
    /\ \E sink \in Sinks(2, W) :
         slides' = Append(slides,
             new_slide("mixed",
                       <<squares[square_idx + 1], portraits[portrait_idx + 1]>>,
                       create_mixed_slide(squares[square_idx + 1],
                                          portraits[portrait_idx + 1], sink)))
    /\ total_slide_count' = total_slide_count + 1
    /\ folder_slide_count' = folder_slide_count + 1
    /\ square_idx' = square_idx + 1
    /\ portrait_idx' = portrait_idx + 1
    /\ UNCHANGED <<config_vars, pc, folder_index, portraits, squares, failed,
                   portrait_groups, group, folder_summary, scan_log>>

\* lines 340, 350-353: the pairing loop ends; the portrait rows are counted
EndMixed ==
    /\ pc = "mixed"
    /\ ~(square_idx < Len(squares) /\ portrait_idx < Len(portraits))
    /\ portrait_groups' = portrait_group_count
    /\ group' = 0
    /\ pc' = "rows"
    /\ UNCHANGED <<config_vars, folder_index, portraits, squares, failed,
                   square_idx, portrait_idx, folder_slide_count,
                   total_slide_count, folder_summary, slides, scan_log>>

\* lines 353-360: one turn of the portrait-row loop
PortraitPage(W) ==
    /\ pc = "rows"
    /\ group < portrait_groups
    /\ LET portrait_imgs == portrait_group(group)
       IN  \E sink \in Sinks(Len(portrait_imgs), W) :
             slides' = Append(slides,
                 new_slide("portrait", portrait_imgs,
                           create_portrait_slide(portrait_imgs, sink)))
    /\ total_slide_count' = total_slide_count + 1
    /\ folder_slide_count' = folder_slide_count + 1
    /\ group' = group + 1
    /\ UNCHANGED <<config_vars, pc, folder_index, portraits, squares, failed,
                   square_idx, portrait_idx, portrait_groups, folder_summary,
                   scan_log>>

\* lines 362-366: the folder's summary entry
FolderDone ==
    /\ pc = "rows"
    /\ group = portrait_groups
    /\ folder_summary' = Append(folder_summary,
           [name  |-> basename(image_folders[folder_index]),
            note  |-> status_note,
            pages |-> folder_slide_count])
    /\ folder_index' = folder_index + 1
    /\ pc' = "folder"
    /\ UNCHANGED <<config_vars, folder_vars, total_slide_count, slides, scan_log>>

\* lines 368-386: every folder was visited; the summary and the total are
\* printed and prs.save succeeds
SaveDone ==
    /\ pc = "folder"
    /\ folder_index > Len(image_folders)
    /\ pc' = "saved"
    /\ UNCHANGED <<config_vars, folder_vars, folder_index, total_slide_count,
                   folder_summary, slides, scan_log>>

\* lines 368-378, 387-388: the same, and prs.save raises; the error is printed
SaveFailed ==
    /\ pc = "folder"
    /\ folder_index > Len(image_folders)
    /\ pc' = "save_failed"
    /\ UNCHANGED <<config_vars, folder_vars, folder_index, total_slide_count,
                   folder_summary, slides, scan_log>>

Run(W) ==
    \/ Begin
    \/ FolderNotFound
    \/ FolderUnlistable
    \/ FolderEmpty(W)
    \/ FolderClassified(W)
    \/ MixedPage(W)
    \/ EndMixed
    \/ PortraitPage(W)
    \/ FolderDone
    \/ SaveDone
    \/ SaveFailed

(***************************************************************************)
(* Initial states: the generator is constructed from the configuration and *)
(* generate_ppt has not started.                                           *)
(***************************************************************************)
Start(folder_count) ==
    /\ image_folders \in {[i \in 1..n |-> FolderPath(i)] : n \in 0..folder_count}
    /\ pc = "start"
    /\ folder_index = 0
    /\ portraits = <<>>
    /\ squares = <<>>
    /\ failed = 0
    /\ square_idx = 0
    /\ portrait_idx = 0
    /\ portrait_groups = 0
    /\ group = 0
    /\ folder_slide_count = 0
    /\ total_slide_count = 0
    /\ folder_summary = <<>>
    /\ slides = <<>>
    /\ scan_log = <<>>

\* The planning world: the default configuration; portrait (3:4) and
\* landscape (4:3) photographs; the document accepts every picture.
PlanWorld ==
    [files |-> {[ext |-> jpg, size |-> <<3, 4>>],
                [ext |-> jpg, size |-> <<4, 3>>]},
     max_files |-> MaxFiles,
     sink_failures |-> 0]

Init ==
    /\ Start(MaxFolders)
    /\ image_area_ratio = default_area_ratio
    /\ margin = default_margin
    /\ gap = default_gap
    /\ show_page_numbers = TRUE
    /\ supported_formats = default_formats
    /\ portrait_threshold = default_portrait_threshold
    /\ square_min = default_square_min
    /\ square_max = default_square_max

Next == Run(PlanWorld)

Spec == Init /\ [][Next]_vars

(***************************************************************************)
(* The layout world: margin, gap and image area ratio vary (the defaults;  *)
(* the full height; a 5 cm margin with a 4 cm gap), page numbers may be    *)
(* switched off, and images are 3:4, 1:1 and 3:1.                          *)
(***************************************************************************)
LayoutWorld ==
    [files |-> {[ext |-> jpg, size |-> <<3, 4>>],
                [ext |-> jpg, size |-> <<1, 1>>],
                [ext |-> jpg, size |-> <<3, 1>>]},
     max_files |-> MaxLayoutFiles,
     sink_failures |-> 0]

Layouts ==
    {<<default_area_ratio, default_margin, default_gap>>,
     <<RInt(1), default_margin, default_gap>>,
     <<default_area_ratio, Cm(RInt(5)), Cm(RInt(4))>>}

InitLayout ==
    /\ Start(MaxLayoutFolders)
    /\ \E l \in Layouts :
         /\ image_area_ratio = l[1]
         /\ margin = l[2]
         /\ gap = l[3]
    /\ show_page_numbers \in BOOLEAN
    /\ supported_formats = default_formats
    /\ portrait_threshold = default_portrait_threshold
    /\ square_min = default_square_min
    /\ square_max = default_square_max

NextLayout == Run(LayoutWorld)

SpecLayout == InitLayout /\ [][NextLayout]_vars

(***************************************************************************)
(* The sink world: the default configuration, with or without page         *)
(* numbers; the document may reject pictures (add_picture raises).         *)
(***************************************************************************)
SinkWorld ==
    [files |-> {[ext |-> jpg, size |-> <<3, 4>>],
                [ext |-> jpg, size |-> <<4, 3>>]},
     max_files |-> MaxSinkFiles,
     sink_failures |-> MaxSinkFailures]

InitSink ==
    /\ Start(MaxSinkFolders)
    /\ image_area_ratio = default_area_ratio
    /\ margin = default_margin
    /\ gap = default_gap
    /\ show_page_numbers \in BOOLEAN
    /\ supported_formats = default_formats
    /\ portrait_threshold = default_portrait_threshold
    /\ square_min = default_square_min
    /\ square_max = default_square_max

NextSink == Run(SinkWorld)

SpecSink == InitSink /\ [][NextSink]_vars

(***************************************************************************)
(* The classification world: the thresholds and the format list vary, and  *)
(* a directory holds files of several extensions (one in upper case, one   *)
(* unsupported), one of them unreadable, one with ratio exactly 0.9.       *)
(***************************************************************************)
ClassifyWorld ==
    [files |-> {[ext |-> jpg, size |-> <<9, 10>>],
                [ext |-> JPG, size |-> <<1, 1>>],
                [ext |-> png, size |-> <<3, 2>>],
                [ext |-> jpg, size |-> <<>>],
                [ext |-> txt, size |-> <<1, 2>>]},
     max_files |-> MaxClassifyFiles,
     sink_failures |-> 0]

Thresholds ==
    {<<default_portrait_threshold, default_square_min, default_square_max>>,
     <<RInt(1), default_square_min, default_square_max>>,
     <<default_portrait_threshold, R(6, 5), R(1, 2)>>,
     <<R(1, 2), RInt(1), RInt(2)>>}

InitClassify ==
    /\ Start(MaxClassifyFolders)
    /\ image_area_ratio = default_area_ratio
    /\ margin = default_margin
    /\ gap = default_gap
    /\ show_page_numbers = TRUE
    /\ supported_formats \in {default_formats, <<jpg>>}
    /\ \E t \in Thresholds :
         /\ portrait_threshold = t[1]
         /\ square_min = t[2]
         /\ square_max = t[3]

NextClassify == Run(ClassifyWorld)

SpecClassify == InitClassify /\ [][NextClassify]_vars

(***************************************************************************)
(* Vocabulary of the properties.                                           *)
(***************************************************************************)
Folders == 1..Len(image_folders)

\* the loop of generate_ppt has moved past folder f
Finished(f) == pc # "start" /\ f < folder_index

Scanned(f) == \E i \in 1..Len(scan_log) : scan_log[i].folder = f

ScanOf(f) == scan_log[CHOOSE i \in 1..Len(scan_log) : scan_log[i].folder = f]

IsOfFolder(f, page) == page.folder = f

SlidesOf(f) == SelectSeq(slides, LAMBDA page : IsOfFolder(f, page))

\* how many times an image record occurs on the given pages
Occurrences(img, pages) ==
    Cardinality({p \in (1..Len(pages)) \X (1..3) :
                    /\ p[2] <= Len(pages[p[1]].images)
                    /\ pages[p[1]].images[p[2]] = img})

CountTemplate(pages, template) ==
    Cardinality({k \in 1..Len(pages) : pages[k].template = template})

\* the specification's page count: min(S,P) + ceil(max(0, P - min(S,P)) / 3)
PageCountFormula(S, P) ==
    LET m == IF S < P THEN S ELSE P
        rest == IF P - m > 0 THEN P - m ELSE 0
    IN  m + ((rest + 2) \div 3)

RECURSIVE SumPages(_)
SumPages(summary) ==
    IF summary = <<>> THEN 0 ELSE Head(summary).pages + SumPages(Tail(summary))

Ended == pc \in {"saved", "save_failed"}

\* C1: once a folder is processed, each of its portraits is on exactly one
\* of the folder's pages, each square/landscape image on at most one, exactly
\* the first min(S,P) square/landscape images are placed, and the other
\* max(0, S-P) are on no page and are the number the summary reports as
\* unmatched.
C1_Accounting ==
    \A f \in Folders :
        (Finished(f) /\ Scanned(f)) =>
            LET P == ScanOf(f).portraits
                S == ScanOf(f).squares
                m == IF Len(S) < Len(P) THEN Len(S) ELSE Len(P)
                pages == SlidesOf(f)
                note == folder_summary[f].note
            IN  /\ \A i \in 1..Len(P) : Occurrences(P[i], pages) = 1
                /\ \A i \in 1..Len(S) :
                       Occurrences(S[i], pages) = IF i <= m THEN 1 ELSE 0
                /\ Cardinality({i \in 1..Len(S) : Occurrences(S[i], slides) = 0})
                       = (IF Len(S) > Len(P) THEN Len(S) - Len(P) ELSE 0)
                /\ (Len(S) + Len(P) > 0) =>
                       /\ note.kind = "used"
                       /\ note.used = m
                       /\ note.unmatched =
                              IF Len(S) > Len(P) THEN <<Len(S) - Len(P)>> ELSE <<>>

\* a processed folder with one portrait and at least three squares
C1_Witness ==
    \E f \in Folders :
        /\ Finished(f) /\ Scanned(f)
        /\ Len(ScanOf(f).portraits) = 1
        /\ Len(ScanOf(f).squares) >= 3
        /\ Len(SlidesOf(f)) = 1

\* C2: every page holds images of the one folder it is attributed to, and
\* the pages of the folders follow each other in the configured order.
C2_FolderSeparation ==
    /\ \A k \in 1..Len(slides) :
           /\ slides[k].folder \in Folders
           /\ \A j \in 1..Len(slides[k].images) :
                  slides[k].images[j].path[1] = image_folders[slides[k].folder]
           /\ \A j \in 1..Len(slides[k].shapes) :
                  slides[k].shapes[j].path[1] = image_folders[slides[k].folder]
    /\ \A k, l \in 1..Len(slides) : k < l => slides[k].folder <= slides[l].folder

\* the run has ended with pages of two folders
C2_Witness ==
    /\ Ended
    /\ \E k, l \in 1..Len(slides) : slides[k].folder = 1 /\ slides[l].folder = 2

\* C3: the k-th page of the document carries page number k, folders that are
\* missing or empty add no page, each folder's page count is the number of
\* its pages, and the final total is the sum of the per-folder counts.
C3_PageNumbers ==
    /\ pc # "start" => total_slide_count = Len(slides)
    /\ \A k \in 1..Len(slides) :
           /\ slides[k].page_num = k
           /\ slides[k].textbox = IF show_page_numbers THEN <<k>> ELSE <<>>
    /\ \A f \in 1..Len(folder_summary) :
           /\ folder_summary[f].pages = Len(SlidesOf(f))
           /\ folder_summary[f].note.kind \in {"not_found", "no_images"} =>
                  folder_summary[f].pages = 0
    /\ Ended => total_slide_count = SumPages(folder_summary)

\* the run has ended; the second folder was missing or empty, and the third
\* folder's first page follows at least two pages of the first folder
C3_Witness ==
    /\ Ended
    /\ Len(folder_summary) = 3
    /\ folder_summary[2].pages = 0
    /\ \E k \in 3..Len(slides) :
           slides[k].folder = 3 /\ slides[k - 1].folder = 1

\* C4: a processed folder with S square/landscape images and P portraits has
\* min(S,P) + ceil(max(0, P - min(S,P)) / 3) pages, min(S,P) of them mixed
\* and ceil((P - min(S,P)) / 3) portrait rows.
C4_PageCount ==
    \A f \in Folders :
        (Finished(f) /\ Scanned(f)) =>
            LET P == Len(ScanOf(f).portraits)
                S == Len(ScanOf(f).squares)
                m == IF S < P THEN S ELSE P
                pages == SlidesOf(f)
            IN  /\ folder_summary[f].pages = PageCountFormula(S, P)
                /\ Len(pages) = PageCountFormula(S, P)
                /\ CountTemplate(pages, "mixed") = m
                /\ CountTemplate(pages, "portrait") = (P - m + 2) \div 3

\* a processed folder with one square and five portraits: 1 + ceil(4/3) pages
C4_Witness ==
    \E f \in Folders :
        /\ Finished(f) /\ Scanned(f)
        /\ Len(ScanOf(f).squares) = 1
        /\ Len(ScanOf(f).portraits) = 5
        /\ Len(SlidesOf(f)) = 3

\* the pages of folder f are the plan of its two lists: first the pairs
\* (i-th square, i-th portrait), then the rest of the portraits in rows of 3
PlannedPages(f) ==
    LET P == ScanOf(f).portraits
        S == ScanOf(f).squares
        m == IF Len(S) < Len(P) THEN Len(S) ELSE Len(P)
        pages == SlidesOf(f)
        rows == Len(pages) - m
    IN  /\ rows >= 0
        /\ \A i \in 1..m :
               /\ pages[i].template = "mixed"
               /\ pages[i].images = <<S[i], P[i]>>
        /\ \A j \in 1..rows :
               /\ pages[m + j].template = "portrait"
               /\ Len(pages[m + j].images) \in 1..3
               /\ j < rows => Len(pages[m + j].images) = 3
               /\ \A i \in 1..Len(pages[m + j].images) :
                      /\ m + 3 * (j - 1) + i <= Len(P)
                      /\ pages[m + j].images[i] = P[m + 3 * (j - 1) + i]
        /\ \A i \in (m + 1)..Len(P) :
               /\ (i - m + 2) \div 3 <= rows
               /\ Len(pages[m + ((i - m + 2) \div 3)].images) >= ((i - m - 1) % 3) + 1

\* C9: within a folder all mixed pages precede all portrait rows, the i-th
\* mixed page holds the i-th square/landscape image and the i-th portrait
\* (square first), and the rows hold the remaining portraits in order, three
\* per row but for a last row of one to three.
C9_Fifo ==
    \A f \in Folders : (Finished(f) /\ Scanned(f)) => PlannedPages(f)

\* a processed folder with a mixed page followed by two portrait rows
C9_Witness ==
    \E f \in Folders :
        /\ Finished(f) /\ Scanned(f)
        /\ LET pages == SlidesOf(f)
           IN  /\ Len(pages) = 3
               /\ pages[1].template = "mixed"
               /\ Len(pages[2].images) = 3
               /\ Len(pages[3].images) = 1

\* the tolerance of the numerical properties, in mm
Eps == R(1, 1000)

RECURSIVE SumWidths(_)
SumWidths(shapes) ==
    IF shapes = <<>> THEN RInt(0) ELSE RAdd(Head(shapes).width, SumWidths(Tail(shapes)))

\* C5: on every page (all pictures placed) the placed widths plus the gaps
\* between them are at most the available width canvasW - 2*margin, up to
\* the tolerance.
C5_BlockFits ==
    \A k \in 1..Len(slides) :
        LET n == Len(slides[k].images)
        IN  Len(slides[k].shapes) = n =>
                RLe(RAdd(SumWidths(slides[k].shapes), RMul(RInt(n - 1), gap)),
                    RAdd(available_width, Eps))

ImageOf(page, shape) ==
    page.images[CHOOSE i \in 1..Len(page.images) : page.images[i].path = shape.path]

\* C6: every placed picture has width/height equal to its image's ratio,
\* the pictures of a page share one height and one top, and the space above
\* the block (from the margin) equals the space below it (to the margin).
C6_AspectAndAlignment ==
    \A k \in 1..Len(slides) :
        LET page == slides[k]
        IN  \A j \in 1..Len(page.shapes) :
                LET shape == page.shapes[j]
                IN  /\ RDiv(shape.width, shape.height) = ImageOf(page, shape).ratio
                    /\ shape.height = page.shapes[1].height
                    /\ shape.top = page.shapes[1].top
                    /\ RSub(shape.top, margin)
                         = RSub(RSub(page_height, margin), RAdd(shape.top, shape.height))

\* a mixed page and a row of three, both scaled down to the available width
C6_Witness ==
    /\ \E k \in 1..Len(slides) :
           /\ slides[k].template = "mixed"
           /\ Len(slides[k].shapes) = 2
           /\ RLt(slides[k].shapes[1].height, RMul(available_height, image_area_ratio))
    /\ \E k \in 1..Len(slides) :
           /\ slides[k].template = "portrait"
           /\ Len(slides[k].shapes) = 3
           /\ RLt(slides[k].shapes[1].height, RMul(available_height, image_area_ratio))

\* C7: whatever the folders hold, a run over a non-empty folder list ends
\* with one summary entry per configured folder, in order, after the report
\* and the save step; it never ends otherwise.
C7_NoAbort ==
    (image_folders # <<>> /\ pc \in {"crashed", "saved", "save_failed"}) =>
        /\ Ended
        /\ Len(folder_summary) = Len(image_folders)
        /\ \A f \in Folders :
               folder_summary[f].name = basename(image_folders[f])

Range(seq) == {seq[i] : i \in 1..Len(seq)}

\* C8: of a folder's directory entries, those whose lower-cased name ends
\* with a configured extension fall in exactly one of: portraits (readable,
\* width/height <= portrait threshold), squares (readable, ratio above the
\* threshold, whatever square_min and square_max), failed (unreadable); the
\* three counts add up to the number of such entries and each list keeps
\* the order of the listing.
C8_Classification ==
    \A n \in 1..Len(scan_log) :
        LET e == scan_log[n]
            L == e.listing
            Eligible(x) ==
                \E ext \in Range(supported_formats) :
                    /\ Len(x.filename) >= Len(ext)
                    /\ \A c \in 1..Len(ext) :
                           LowerChar(x.filename[Len(x.filename) - Len(ext) + c]) = ext[c]
            Tall(x) == x.size[1] * portrait_threshold[2] <= portrait_threshold[1] * x.size[2]
            IsPortrait(x) == Eligible(x) /\ x.size # <<>> /\ Tall(x)
            IsSquare(x) == Eligible(x) /\ x.size # <<>> /\ ~Tall(x)
            IsFailed(x) == Eligible(x) /\ x.size = <<>>
            Names(imgs) == [i \in 1..Len(imgs) |-> imgs[i].filename]
            NamesOf(entries) == [i \in 1..Len(entries) |-> entries[i].filename]
        IN  /\ Names(e.portraits) = NamesOf(SelectSeq(L, IsPortrait))
            /\ Names(e.squares) = NamesOf(SelectSeq(L, IsSquare))
            /\ e.failed = Len(SelectSeq(L, IsFailed))
            /\ Len(e.portraits) + Len(e.squares) + e.failed = Len(SelectSeq(L, Eligible))
            /\ \A i \in 1..Len(e.portraits) :
                   e.portraits[i].path = <<image_folders[e.folder], e.portraits[i].filename>>
            /\ \A i \in 1..Len(e.squares) :
                   e.squares[i].path = <<image_folders[e.folder], e.squares[i].filename>>

\* a folder with a portrait of ratio exactly the threshold, an unreadable
\* file and a file of an unsupported extension
C8_Witness ==
    \E n \in 1..Len(scan_log) :
        LET e == scan_log[n]
        IN  /\ Len(e.listing) = 3
            /\ e.failed = 1
            /\ Len(e.portraits) = 1
            /\ e.portraits[1].ratio = portrait_threshold
            /\ Len(e.squares) = 0

FullShapes(page) ==
    IF page.template = "mixed"
    THEN create_mixed_slide(page.images[1], page.images[2], <<TRUE, TRUE>>)
    ELSE create_portrait_slide(page.images, [i \in 1..Len(page.images) |-> TRUE])

\* C10: a rejected picture is the only thing missing: its page exists and
\* has its number, the other pictures of the page are where they are when
\* nothing is rejected, and the page counter, the folders' page counts and
\* the pages planned afterwards are those of a run without rejections.
C10_RejectionIsLocal ==
    /\ \A k \in 1..Len(slides) :
           LET page == slides[k]
               full == FullShapes(page)
               Kept(shape) == shape \in Range(page.shapes)
           IN  /\ Range(page.shapes) \subseteq Range(full)
               /\ page.shapes = SelectSeq(full, Kept)
               /\ page.page_num = k
               /\ page.textbox = IF show_page_numbers THEN <<k>> ELSE <<>>
    /\ pc # "start" => total_slide_count = Len(slides)
    /\ \A f \in Folders :
           (Finished(f) /\ Scanned(f)) =>
               /\ PlannedPages(f)
               /\ folder_summary[f].pages =
                      PageCountFormula(Len(ScanOf(f).squares), Len(ScanOf(f).portraits))
               /\ folder_summary[f].pages = Len(SlidesOf(f))

\* the run is saved; the first picture of a row in folder 1 was rejected,
\* the row's second picture is placed, and folder 2 has a page after it
C10_Witness ==
    /\ pc = "saved"
    /\ \E k, l \in 1..Len(slides) :
           /\ k < l
           /\ slides[k].folder = 1
           /\ slides[l].folder = 2
           /\ slides[k].template = "portrait"
           /\ Len(slides[k].images) = 2
           /\ Len(slides[k].shapes) = 1
           /\ slides[k].shapes[1].path = slides[k].images[2].path

====
